---- MODULE Spec2Model ----
(***************************************************************************)
(* Master-dataset reconciliation engine of the trading dashboard:          *)
(* config/py/master_data_manager.py (MasterDataManager).                   *)
(*                                                                         *)
(* A frame (pandas DataFrame with the default RangeIndex) is a sequence of *)
(* rows; a row is a record over the columns trade_date, ticker and         *)
(* unit_price.  Prices are integers counted in half units (unit_price = 3  *)
(* is 1.5) and numeric_rounding rounds the price column to whole units the *)
(* way DataFrame.round does (half to even).  Dates are day numbers.        *)
(***************************************************************************)
EXTENDS Integers, Sequences, FiniteSets, TLC

VARIABLES
    key_columns,   \* self.key_columns, fixed at construction
    masterFile,    \* the file at get_master_file_path()
    backups,       \* the *_backup_<timestamp>.parquet files: name -> file
    now,           \* wall clock, in seconds (datetime.now())
    pc,            \* position of the run
    df_master,     \* result of load_master_data (Optional frame)
    df_new,        \* the batch handed to merge_with_master
    df_merged,     \* frame returned by merge_with_master
    changed,       \* flag returned by merge_with_master
    backup_file,   \* local of save_master_data: name of the backup, 0 if none
    save_result,   \* how the last save_master_data ended
    ever_saved,    \* some save_master_data has returned True
    faults,        \* I/O failures injected so far
    runs,          \* runs started so far
    \* cleanup_backup_files (config/py/utils.py)
    backup_dir,    \* the backup files in backup_dir
    cl_pc,         \* "ready" before the call, "done" after it
    cl_call,       \* the call: directory before it, arguments, failing files
    deleted_count, \* value returned by cleanup_backup_files
    \* aggregate_split_transactions (config/py/data_processing.py)
    agg_pc,        \* "ready" before the call, "done" after it
    group_keys,    \* argument group_keys
    agg_df,        \* argument df
    df_aggregated, \* frame returned
    df_reaggregated, \* frame returned for df_aggregated as the argument
    \* identifier resolution (config/py/stock_name_overrides.py, utils.py)
    res_fn,        \* the resolution function applied
    res_in,        \* the frame before the first pass
    res_prev,      \* the frame before the last pass
    res_df,        \* the frame after the last pass
    res_passes,    \* passes made
    \* complete_stock_name_from_transaction_inference (config/py/utils.py)
    fz_pc,         \* "ready" before the call, "done" after it
    fz_target,     \* the row of df_realized_pl with blank identifiers
    df_transaction, \* the reference ledger
    fz_out,        \* the row after the call
    best_match_idx, \* index of the reference row used, 0 if none
    \* save_master_data followed by cleanup_backup_files
    sv_master,     \* st_mtime of the master file, 0 if there is none
    sv_now,        \* wall clock: day and time of day
    sv_writes,     \* writes of the master file so far
    sv_latest      \* the backup the latest overwrite has made

mergeVars == <<key_columns, masterFile, backups, now, pc, df_master, df_new,
               df_merged, changed, backup_file, save_result, ever_saved,
               faults, runs>>

cleanupVars == <<backup_dir, cl_pc, cl_call, deleted_count>>

aggVars == <<agg_pc, group_keys, agg_df, df_aggregated, df_reaggregated>>

resVars == <<res_fn, res_in, res_prev, res_df, res_passes>>

fzVars == <<fz_pc, fz_target, df_transaction, fz_out, best_match_idx>>

svVars == <<sv_master, sv_now, sv_writes, sv_latest>>

vars == <<mergeVars, cleanupVars, aggVars, resVars, fzVars, svVars>>

----------------------------------------------------------------------------
(* Bounds of the model *)

MaxBatch == 3        \* rows in one new batch
MaxMaster == 3       \* rows a merged frame may reach
MaxSmallBatch == 1   \* rows in one new batch, specification SpecSmall
MaxSmallMaster == 2  \* rows a merged frame may reach, SpecSmall
MaxGivenMaster == 2  \* rows of the master a merge starts from, SpecMerge
MaxClock == 2        \* seconds the clock may reach
MaxFaults == 1       \* I/O failures in one behaviour
MaxRuns == 3         \* pipeline runs in one behaviour
\* len(df_master) > 10000 in deduplicate, scaled down to the model's frames
LargeMasterRows == 1
MaxBackupFiles == 3  \* backup files in the directory
MaxDay == 2          \* calendar days in backup names
MaxTime == 2         \* times of day in backup names
MaxMtime == 2        \* modification times
MaxKeep == 2         \* largest keep_latest_n
MaxAggBatch == 2     \* rows of a batch handed to the aggregator
MaxResBatch == 2     \* rows of a frame handed to identifier resolution
MaxPasses == 2       \* passes of identifier resolution over one frame
MaxLedger == 2       \* rows of the reference ledger
MaxWrites == 3       \* writes of the master file, specification SpecRetain

(* Program constants *)
WindowDays == 90     \* pd.Timedelta(days=90)

----------------------------------------------------------------------------
(* Data *)

Columns == {"trade_date", "ticker", "unit_price"}
Dates == {1, 2 + WindowDays}
Tickers == {"SOFI"}
Prices == {0, 1, 2}     \* 0.0, 0.5 and 1.0

Rows == [trade_date : Dates, ticker : Tickers, unit_price : Prices]

RECURSIVE SeqsUpTo(_, _)
SeqsUpTo(S, n) ==
    IF n = 0 THEN {<<>>}
    ELSE LET shorter == SeqsUpTo(S, n - 1)
         IN  shorter \cup {Append(s, x) : s \in {t \in shorter : Len(t) = n - 1}, x \in S}

Batches == SeqsUpTo(Rows, MaxBatch)
SmallBatches == SeqsUpTo(Rows, MaxSmallBatch)

\* key_columns the manager may be constructed with: the date column in the
\* key, the date column outside the key, and a key column the frames lack
KeyConfigs == { {"trade_date", "ticker", "unit_price"},
                {"ticker", "unit_price"},
                {"trade_date", "ticker", "unit_price", "settlement_date"} }

date_columns == <<"trade_date">>

\* Optional[pd.DataFrame]
NoneFrame == [present |-> FALSE, rows |-> <<>>]
SomeFrame(rows) == [present |-> TRUE, rows |-> rows]

\* a file on disk: absent, a readable parquet file, or an unreadable one
NoFile == [kind |-> "absent", rows |-> <<>>, mtime |-> 0]
ParquetFile(rows, t) == [kind |-> "parquet", rows |-> rows, mtime |-> t]
CorruptFile(t) == [kind |-> "corrupt", rows |-> <<>>, mtime |-> t]

----------------------------------------------------------------------------
(* MasterDataManager: the pure part *)

\* Series.round(0) on a price in half units: halves go to the even unit
RoundPrice(p) ==
    IF p % 2 = 0 THEN p
    ELSE IF (p \div 2) % 2 = 0 THEN 2 * (p \div 2) ELSE 2 * ((p \div 2) + 1)

apply_numeric_rounding(df) ==
    [i \in 1..Len(df) |-> [df[i] EXCEPT !.unit_price = RoundPrice(@)]]

\* df[self.key_columns] of one row
KeyOf(row) == [c \in key_columns |-> row[c]]

\* df_new[date_col].min()
MinDate(df) ==
    CHOOSE d \in {df[i].trade_date : i \in 1..Len(df)} :
        \A i \in 1..Len(df) : d <= df[i].trade_date

\* the trailing-window narrowing of the master
FilterMaster(new, master) ==
    IF Len(master) > LargeMasterRows /\ Len(date_columns) > 0
    THEN IF date_columns[1] \in Columns
         THEN IF Len(new) = 0
              THEN <<>>      \* min() of no dates is NaT, every comparison False
              ELSE SelectSeq(master,
                       LAMBDA r : r.trade_date >= MinDate(new) - WindowDays)
         ELSE master
    ELSE master

\* number of rows of the (filtered) master carrying the key of a batch row
Matches(row, master) ==
    Cardinality({j \in 1..Len(master) : KeyOf(master[j]) = KeyOf(row)})

\* the "_merge" == "left_only" column of the left merge: one entry per
\* output row of the merge, a batch row with k > 1 matches yields k rows
RECURSIVE LeftOnlyColumn(_, _, _)
LeftOnlyColumn(new, master, i) ==
    IF i > Len(new) THEN <<>>
    ELSE LET k == Matches(new[i], master)
         IN  (IF k = 0 THEN <<TRUE>> ELSE [j \in 1..k |-> FALSE])
             \o LeftOnlyColumn(new, master, i + 1)

\* df_new[mask]: the boolean Series is aligned to df_new's index by label
RECURSIVE TakeMasked(_, _, _)
TakeMasked(df, mask, i) ==
    IF i > Len(df) THEN <<>>
    ELSE (IF mask[i] THEN <<df[i]>> ELSE <<>>) \o TakeMasked(df, mask, i + 1)

\* the left merge with indicator and the selection of the "left_only" rows
AntiJoin(new, master) ==
    TakeMasked(new, LeftOnlyColumn(new, master, 1), 1)

\* deduplicate that anti-joins on the key columns the frames do carry
deduplicate_PartialKey(new_in, master_in) ==
    LET new == apply_numeric_rounding(new_in)
        Part(row) == [c \in key_columns \cap Columns |-> row[c]]
        Hit(row, master) == \E j \in 1..Len(master) : Part(master[j]) = Part(row)
    IN  IF ~master_in.present THEN new
        ELSE LET master == FilterMaster(new, apply_numeric_rounding(master_in.rows))
             IN  SelectSeq(new, LAMBDA r : ~Hit(r, master))

deduplicate(new_in, master_in) ==
    LET new == apply_numeric_rounding(new_in)
    IN  IF ~master_in.present THEN new
        ELSE LET master   == apply_numeric_rounding(master_in.rows)
                 filtered == FilterMaster(new, master)
                 missing  == {c \in key_columns : c \notin Columns}
             IN  IF missing # {} THEN new
                 ELSE AntiJoin(new, filtered)

\* merge_with_master with changed = True on every cold-start merge
merge_with_master_ColdAlwaysChanged(new_in, master_in) ==
    LET df_new_unique == deduplicate(new_in, master_in)
    IN  IF master_in.present
        THEN IF Len(df_new_unique) > 0
             THEN [frame |-> master_in.rows \o df_new_unique, changed |-> TRUE]
             ELSE [frame |-> master_in.rows, changed |-> FALSE]
        ELSE [frame |-> df_new_unique, changed |-> TRUE]

\* merge_with_master that puts the new rows in front of the master
merge_with_master_NewFirst(new_in, master_in) ==
    LET df_new_unique == deduplicate(new_in, master_in)
    IN  IF Len(df_new_unique) > 0
        THEN IF master_in.present
             THEN [frame |-> df_new_unique \o master_in.rows, changed |-> TRUE]
             ELSE [frame |-> df_new_unique, changed |-> TRUE]
        ELSE IF master_in.present
             THEN [frame |-> master_in.rows, changed |-> FALSE]
             ELSE [frame |-> new_in, changed |-> FALSE]

\* merge_with_master that tests len(df_new_unique) > 1
merge_with_master_OffByOne(new_in, master_in) ==
    LET df_new_unique == deduplicate(new_in, master_in)
    IN  IF Len(df_new_unique) > 1
        THEN IF master_in.present
             THEN [frame |-> master_in.rows \o df_new_unique, changed |-> TRUE]
             ELSE [frame |-> df_new_unique, changed |-> TRUE]
        ELSE IF master_in.present
             THEN [frame |-> master_in.rows, changed |-> FALSE]
             ELSE [frame |-> new_in, changed |-> FALSE]

merge_with_master(new_in, master_in) ==
    LET df_new_unique == deduplicate(new_in, master_in)
    IN  IF Len(df_new_unique) > 0
        THEN IF master_in.present
             THEN [frame |-> master_in.rows \o df_new_unique, changed |-> TRUE]
             ELSE [frame |-> df_new_unique, changed |-> TRUE]
        ELSE IF master_in.present
             THEN [frame |-> master_in.rows, changed |-> FALSE]
             ELSE [frame |-> new_in, changed |-> FALSE]

\* load_master_data: no file, or a file read_parquet cannot read, is None
load_master_data(file) ==
    IF file.kind = "parquet" THEN SomeFrame(file.rows) ELSE NoneFrame

----------------------------------------------------------------------------
(* The run: load, merge, save *)

\* the part of the state a specification does not use
CleanupIdle ==
    /\ backup_dir = {}
    /\ cl_pc = "idle"
    /\ cl_call = [before |-> {}, locked |-> {}, keep_daily_only |-> TRUE,
                  keep_latest_n |-> 0]
    /\ deleted_count = 0

AggIdle ==
    /\ agg_pc = "idle"
    /\ group_keys = <<>>
    /\ agg_df = <<>>
    /\ df_aggregated = <<>>
    /\ df_reaggregated = <<>>

NoBackup == [day |-> 0, time |-> 0, mtime |-> 0]
BlankRow == [settlement_date |-> 0, num_of_shares |-> 0, price |-> 0,
             ticker |-> "", stock_name |-> ""]

ResIdle ==
    /\ res_fn = "none"
    /\ res_in = <<>>
    /\ res_prev = <<>>
    /\ res_df = <<>>
    /\ res_passes = 0

FzIdle ==
    /\ fz_pc = "idle"
    /\ fz_target = BlankRow
    /\ df_transaction = <<>>
    /\ fz_out = BlankRow
    /\ best_match_idx = 0

SvIdle ==
    /\ sv_master = 0
    /\ sv_now = [day |-> 1, time |-> 1]
    /\ sv_writes = 0
    /\ sv_latest = NoBackup

OthersIdle == ResIdle /\ FzIdle /\ SvIdle

Init ==
    /\ CleanupIdle
    /\ AggIdle
    /\ OthersIdle
    /\ key_columns \in KeyConfigs
    /\ masterFile = NoFile
    /\ backups = [t \in 1..MaxClock |-> NoFile]
    /\ now = 1
    /\ pc = "idle"
    /\ df_master = NoneFrame
    /\ df_new = <<>>
    /\ df_merged = <<>>
    /\ changed = FALSE
    /\ backup_file = 0
    /\ save_result = "none"
    /\ ever_saved = FALSE
    /\ faults = 0
    /\ runs = 0

\* time passes between runs, and between the backup and the write
Tick ==
    /\ pc \in {"idle", "write"}
    /\ now < MaxClock
    /\ now' = now + 1
    /\ UNCHANGED <<cleanupVars, aggVars, resVars, fzVars, svVars, key_columns, ever_saved, masterFile, backups, pc, df_master, df_new,
                   df_merged, changed, backup_file, save_result, faults, runs>>

LoadMasterData ==
    /\ pc = "idle"
    /\ runs < MaxRuns
    /\ runs' = runs + 1
    /\ df_master' = load_master_data(masterFile)
    /\ pc' = "loaded"
    /\ df_new' = <<>>
    /\ df_merged' = <<>>
    /\ changed' = FALSE
    /\ backup_file' = 0
    /\ save_result' = "none"
    /\ UNCHANGED <<cleanupVars, aggVars, resVars, fzVars, svVars, key_columns, ever_saved, masterFile, backups, now, faults>>

MergeBatch(batches, cap) ==
    /\ pc = "loaded"
    /\ \E batch \in batches :
         LET r == merge_with_master(batch, df_master)
         IN  /\ Len(r.frame) <= cap
             /\ df_new' = batch
             /\ df_merged' = r.frame
             /\ changed' = r.changed
    /\ pc' = "merged"
    /\ UNCHANGED <<cleanupVars, aggVars, resVars, fzVars, svVars, key_columns, ever_saved, masterFile, backups, now, df_master,
                   backup_file, save_result, faults, runs>>

MergeWithMaster == MergeBatch(Batches, MaxMaster)

MergeWithMasterSmall == MergeBatch(SmallBatches, MaxSmallMaster)

\* changed = False: nothing to write, the run ends
SkipSave ==
    /\ pc = "merged"
    /\ ~changed
    /\ pc' = "idle"
    /\ UNCHANGED <<cleanupVars, aggVars, resVars, fzVars, svVars, key_columns, ever_saved, masterFile, backups, now, df_master, df_new,
                   df_merged, changed, backup_file, save_result, faults, runs>>

\* save_master_data, up to the master_file.exists() test
SaveBegin ==
    /\ pc = "merged"
    /\ changed
    /\ IF masterFile.kind # "absent"
       THEN /\ backup_file' = now
            /\ pc' = "copy"
       ELSE /\ backup_file' = 0
            /\ pc' = "write"
    /\ UNCHANGED <<cleanupVars, aggVars, resVars, fzVars, svVars, key_columns, ever_saved, masterFile, backups, now, df_master, df_new,
                   df_merged, changed, save_result, faults, runs>>

\* shutil.copy2(master_file, backup_file): content and mtime are copied
BackupCopy ==
    /\ pc = "copy"
    /\ backups' = [backups EXCEPT ![backup_file] = masterFile]
    /\ pc' = "write"
    /\ UNCHANGED <<cleanupVars, aggVars, resVars, fzVars, svVars, key_columns, ever_saved, masterFile, now, df_master, df_new, df_merged,
                   changed, backup_file, save_result, faults, runs>>

\* save_master_data that goes on to the write after a failed copy
BackupCopyFails_ThenWrites ==
    /\ pc = "copy"
    /\ faults < MaxFaults
    /\ faults' = faults + 1
    /\ \/ backups' = backups
       \/ backups' = [backups EXCEPT ![backup_file] = CorruptFile(now)]
    /\ pc' = "write"
    /\ UNCHANGED <<cleanupVars, aggVars, resVars, fzVars, svVars, key_columns, ever_saved, masterFile, now, df_master, df_new,
                   df_merged, changed, backup_file, save_result, runs>>

\* shutil.copy2 raises: the except clause prints a warning and returns False
BackupCopyFails ==
    /\ pc = "copy"
    /\ faults < MaxFaults
    /\ faults' = faults + 1
    /\ \/ backups' = backups
       \/ backups' = [backups EXCEPT ![backup_file] = CorruptFile(now)]
    /\ save_result' = "returned_false"
    /\ pc' = "idle"
    /\ UNCHANGED <<cleanupVars, aggVars, resVars, fzVars, svVars, key_columns, ever_saved, masterFile, now, df_master, df_new, df_merged,
                   changed, backup_file, runs>>

\* df.to_parquet(master_file, index=False); return True
WriteMaster ==
    /\ pc = "write"
    /\ masterFile' = ParquetFile(df_merged, now)
    /\ save_result' = "returned_true"
    /\ ever_saved' = TRUE
    /\ pc' = "idle"
    /\ UNCHANGED <<cleanupVars, aggVars, resVars, fzVars, svVars, key_columns, backups, now, df_master, df_new, df_merged,
                   changed, backup_file, faults, runs>>

\* save_master_data without the except clause: the exception leaves it
WriteMasterFails_Raises ==
    /\ pc = "write"
    /\ faults < MaxFaults
    /\ faults' = faults + 1
    /\ \/ masterFile' = masterFile
       \/ masterFile' = CorruptFile(now)
    /\ save_result' = "raised"
    /\ pc' = "idle"
    /\ UNCHANGED <<cleanupVars, aggVars, resVars, fzVars, svVars, key_columns, ever_saved, backups, now, df_master, df_new,
                   df_merged, changed, backup_file, runs>>

\* df.to_parquet raises: before the file is opened the old file is intact,
\* after it the file at the master path is a truncated parquet file
WriteMasterFails ==
    /\ pc = "write"
    /\ faults < MaxFaults
    /\ faults' = faults + 1
    /\ \/ masterFile' = masterFile
       \/ masterFile' = CorruptFile(now)
    /\ save_result' = "returned_false"
    /\ pc' = "idle"
    /\ UNCHANGED <<cleanupVars, aggVars, resVars, fzVars, svVars, key_columns, ever_saved, backups, now, df_master, df_new, df_merged,
                   changed, backup_file, runs>>

Next ==
    \/ Tick
    \/ LoadMasterData
    \/ MergeWithMaster
    \/ SkipSave
    \/ SaveBegin
    \/ BackupCopy
    \/ BackupCopyFails
    \/ WriteMaster
    \/ WriteMasterFails

Spec == Init /\ [][Next]_vars

\* the same runs over batches of at most MaxSmallBatch rows
NextSmall ==
    \/ Tick
    \/ LoadMasterData
    \/ MergeWithMasterSmall
    \/ SkipSave
    \/ SaveBegin
    \/ BackupCopy
    \/ BackupCopyFails
    \/ WriteMaster
    \/ WriteMasterFails

SpecSmall == Init /\ [][NextSmall]_vars

\* one merge_with_master call on a master some earlier runs have left: a
\* cold-start merge of a batch b persists the rounded b, so every non-empty
\* frame of rounded rows is a master the program can hold
GivenMasters ==
    {NoneFrame} \cup
    {SomeFrame(apply_numeric_rounding(b)) :
        b \in SeqsUpTo(Rows, MaxGivenMaster) \ {<<>>}}

InitMerge ==
    /\ CleanupIdle
    /\ AggIdle
    /\ OthersIdle
    /\ key_columns \in KeyConfigs
    /\ masterFile = NoFile
    /\ backups = [t \in 1..MaxClock |-> NoFile]
    /\ now = 1
    /\ pc = "loaded"
    /\ df_master \in GivenMasters
    /\ df_new = <<>>
    /\ df_merged = <<>>
    /\ changed = FALSE
    /\ backup_file = 0
    /\ save_result = "none"
    /\ ever_saved = df_master.present
    /\ faults = 0
    /\ runs = 1

MergeWithGivenMaster == MergeBatch(Batches, MaxBatch + MaxGivenMaster)

NextMerge == MergeWithGivenMaster

SpecMerge == InitMerge /\ [][NextMerge]_vars

----------------------------------------------------------------------------
(* cleanup_backup_files *)

MergeIdle ==
    /\ key_columns = {"trade_date", "ticker", "unit_price"}
    /\ masterFile = NoFile
    /\ backups = [t \in 1..MaxClock |-> NoFile]
    /\ now = 1
    /\ pc = "off"
    /\ df_master = NoneFrame
    /\ df_new = <<>>
    /\ df_merged = <<>>
    /\ changed = FALSE
    /\ backup_file = 0
    /\ save_result = "none"
    /\ ever_saved = FALSE
    /\ faults = 0
    /\ runs = 0

\* a backup file <prefix>_backup_<day>_<time>.parquet with its st_mtime
BackupFiles == [day : 1..MaxDay, time : 1..MaxTime, mtime : 1..MaxMtime]

RECURSIVE SetsUpTo(_, _)
SetsUpTo(S, n) ==
    IF n = 0 THEN {{}}
    ELSE LET smaller == SetsUpTo(S, n - 1)
         IN  smaller \cup {T \cup {x} : T \in smaller, x \in S}

SameName(f, g) == f.day = g.day /\ f.time = g.time

\* the directories: no two files have one name
BackupDirs ==
    {D \in SetsUpTo(BackupFiles, MaxBackupFiles) :
        \A f, g \in D : SameName(f, g) => f = g}

\* sorted(backup_dir.glob(...), key=st_mtime, reverse=True): the listings
\* of the files by falling mtime; glob's order decides among equal mtimes
SortedListings(files) ==
    {o \in [1..Cardinality(files) -> files] :
        /\ \A i, j \in DOMAIN o : i # j => o[i] # o[j]
        /\ \A i, j \in DOMAIN o : i < j => o[i].mtime >= o[j].mtime}

\* keep_daily_only: per day of the name, files_sorted[1:]
OldOfEachDay(o) ==
    {o[i] : i \in {k \in DOMAIN o : \E j \in 1..(k - 1) : o[j].day = o[k].day}}

\* backup_files[keep_latest_n:]
BeyondLatestN(o, n) ==
    IF Len(o) > n THEN {o[i] : i \in (n + 1)..Len(o)} ELSE {}

\* cleanup_backup_files that keeps the oldest backup of each day
cleanup_backup_files_KeepsOldest(o, keep_latest_n, keep_daily_only, locked) ==
    LET old == IF keep_daily_only
               THEN {o[i] : i \in {k \in DOMAIN o :
                        \E j \in (k + 1)..Len(o) : o[j].day = o[k].day}}
               ELSE BeyondLatestN(o, keep_latest_n)
        gone == old \ locked
    IN  [dir |-> {o[i] : i \in DOMAIN o} \ gone, deleted_count |-> Cardinality(gone)]

\* cleanup_backup_files that keeps keep_latest_n + 1 files
cleanup_backup_files_KeepsOneMore(o, keep_latest_n, keep_daily_only, locked) ==
    LET old == IF keep_daily_only THEN OldOfEachDay(o)
               ELSE BeyondLatestN(o, keep_latest_n + 1)
        gone == old \ locked
    IN  [dir |-> {o[i] : i \in DOMAIN o} \ gone, deleted_count |-> Cardinality(gone)]

\* cleanup_backup_files that counts a deletion before unlink succeeds
cleanup_backup_files_CountsFailed(o, keep_latest_n, keep_daily_only, locked) ==
    LET old == IF keep_daily_only THEN OldOfEachDay(o)
               ELSE BeyondLatestN(o, keep_latest_n)
        gone == old \ locked
    IN  [dir |-> {o[i] : i \in DOMAIN o} \ gone, deleted_count |-> Cardinality(old)]

\* o: the sorted listing; locked: the files whose unlink() raises
cleanup_backup_files(o, keep_latest_n, keep_daily_only, locked) ==
    LET old == IF keep_daily_only THEN OldOfEachDay(o)
               ELSE BeyondLatestN(o, keep_latest_n)
        gone == old \ locked
    IN  [dir |-> {o[i] : i \in DOMAIN o} \ gone, deleted_count |-> Cardinality(gone)]

InitCleanup ==
    /\ MergeIdle
    /\ AggIdle
    /\ OthersIdle
    /\ backup_dir \in BackupDirs
    /\ cl_pc = "ready"
    /\ cl_call = [before |-> {}, locked |-> {}, keep_daily_only |-> TRUE,
                  keep_latest_n |-> 0]
    /\ deleted_count = 0

CleanupBackupFiles ==
    /\ cl_pc = "ready"
    /\ \E keep_daily_only \in BOOLEAN, locked \in SUBSET backup_dir,
          o \in SortedListings(backup_dir) :
         \E keep_latest_n \in (IF keep_daily_only THEN {MaxKeep} ELSE 0..MaxKeep) :
            LET r == cleanup_backup_files(o, keep_latest_n, keep_daily_only, locked)
            IN  /\ backup_dir' = r.dir
                /\ deleted_count' = r.deleted_count
                /\ cl_call' = [before |-> backup_dir, locked |-> locked,
                               keep_daily_only |-> keep_daily_only,
                               keep_latest_n |-> keep_latest_n]
    /\ cl_pc' = "done"
    /\ UNCHANGED <<mergeVars, aggVars, resVars, fzVars, svVars>>

NextCleanup == CleanupBackupFiles

SpecCleanup == InitCleanup /\ [][NextCleanup]_vars

----------------------------------------------------------------------------
(* aggregate_split_transactions *)

price_round_decimals == 1

\* float values as exact fractions n/d of a dollar, d > 0 and n/d in lowest
\* terms, or the IEEE values a division by zero gives
RECURSIVE GCD(_, _)
GCD(a, b) == IF b = 0 THEN a ELSE GCD(b, a % b)

Abs(a) == IF a < 0 THEN -a ELSE a

Num(n, d) ==
    LET g == GCD(Abs(n), Abs(d))
        s == IF d < 0 THEN -1 ELSE 1
    IN  [kind |-> "num", n |-> (s * n) \div g, d |-> (s * d) \div g]

NaN == [kind |-> "nan", n |-> 0, d |-> 1]
PosInf == [kind |-> "inf", n |-> 1, d |-> 1]
NegInf == [kind |-> "inf", n |-> -1, d |-> 1]

IsNull(x) == x.kind = "nan"

\* x * q and x + y for finite x, y and an integer q
Times(x, q) == Num(x.n * q, x.d)
Plus(x, y) == Num(x.n * y.d + y.n * x.d, x.d * y.d)

\* x / q as numpy divides: 0/0 is NaN, x/0 is an infinity of the sign of x
DividedBy(x, q) ==
    IF q # 0 THEN Num(x.n, x.d * q)
    ELSE IF x.n = 0 THEN NaN
    ELSE IF x.n > 0 THEN PosInf ELSE NegInf

RECURSIVE Pow10(_)
Pow10(k) == IF k = 0 THEN 1 ELSE 10 * Pow10(k - 1)

\* Series.round keeping every digit of the price
round_KeepsAllDigits(x, decimals) == x

\* Series.round(decimals): to the nearest multiple of 10^-decimals, a tie
\* to the even one
round(x, decimals) ==
    LET m == Pow10(decimals)
        t == x.n * m
        q == t \div x.d
        r == t % x.d
        up == \/ 2 * r > x.d
              \/ (2 * r = x.d /\ q % 2 = 1)
    IN  Num(IF up THEN q + 1 ELSE q, m)

AggColumns == {"trade_date", "ticker", "price_usd", "quantity"}
AggDates == {1, 2}
AggPrices == {Num(100, 1), Num(10003, 100), Num(103, 1)}
AggQuantities == {-5, 0, 5, 10}
AggRows == [trade_date : AggDates, ticker : Tickers, price_usd : AggPrices,
            quantity : AggQuantities]
AggBatches == SeqsUpTo(AggRows, MaxAggBatch)

DefaultGroupKeys ==
    <<"trade_date", "settlement_date", "ticker", "trade_type", "price_usd">>
GroupKeyConfigs == {DefaultGroupKeys, <<"trade_date", "ticker">>, <<"order_id">>}
sum_columns == {"quantity", "amount_usd", "fees_usd", "tax_usd",
                "net_amount_usd", "net_amount_jpy", "settlement_amount",
                "amount_jpy", "fees_jpy", "tax_jpy"}

\* [k for k in group_keys if k in df.columns], price_usd replaced by the
\* rounded column
existing_keys(keys) ==
    LET kept == SelectSeq(keys, LAMBDA k : k \in AggColumns)
    IN  [i \in DOMAIN kept |->
            IF kept[i] = "price_usd" THEN "_price_usd_rounded" ELSE kept[i]]

\* price_usd is a grouping key of the frame
use_rounded_price(keys) ==
    /\ \E i \in DOMAIN keys : keys[i] = "price_usd"
    /\ "price_usd" \in AggColumns

\* the value of a key column of a row
KeyValue(row, k, decimals) ==
    IF k = "_price_usd_rounded" THEN round(row.price_usd, decimals) ELSE row[k]

GroupKey(row, ekeys, decimals) ==
    [i \in DOMAIN ekeys |-> KeyValue(row, ekeys[i], decimals)]

\* the order groupby sorts the groups in; Tickers holds one ticker
TickerRank(t) == 1
ValueLess(k, a, b) ==
    IF k = "_price_usd_rounded" THEN a.n * b.d < b.n * a.d
    ELSE IF k = "ticker" THEN TickerRank(a) < TickerRank(b)
    ELSE a < b

KeyLess(ekeys, a, b) ==
    \E i \in DOMAIN ekeys :
        /\ ValueLess(ekeys[i], a[i], b[i])
        /\ \A j \in 1..(i - 1) : a[j] = b[j]

RECURSIVE SortKeys(_, _)
SortKeys(ekeys, S) ==
    IF S = {} THEN <<>>
    ELSE LET least == CHOOSE a \in S : \A b \in S \ {a} : KeyLess(ekeys, a, b)
         IN  <<least>> \o SortKeys(ekeys, S \ {least})

RECURSIVE SumQuantity(_)
SumQuantity(g) ==
    IF g = <<>> THEN 0 ELSE Head(g).quantity + SumQuantity(Tail(g))

\* sum of the column _weighted_price = price_usd * quantity
RECURSIVE SumWeighted(_)
SumWeighted(g) ==
    IF g = <<>> THEN Num(0, 1)
    ELSE Plus(Times(Head(g).price_usd, Head(g).quantity), SumWeighted(Tail(g)))

\* one output row of groupby(...).agg(agg_dict) for the group g, then the
\* price restored from the weighted sum
AggregateGroup(g, ekeys, weighted) ==
    [c \in AggColumns |->
        IF \E i \in DOMAIN ekeys : ekeys[i] = c THEN Head(g)[c]
        ELSE IF c = "price_usd" /\ weighted /\ "quantity" \in AggColumns
            THEN DividedBy(SumWeighted(g), SumQuantity(g))
        ELSE IF c \in sum_columns THEN SumQuantity(g)
        ELSE Head(g)[c]]

\* aggregate_split_transactions that puts a batch without any grouping key
\* into one group
aggregate_split_transactions_OneGroup(df, keys, decimals) ==
    LET ekeys == existing_keys(keys)
        weighted == use_rounded_price(keys)
        groups == SortKeys(ekeys, {GroupKey(df[i], ekeys, decimals) : i \in DOMAIN df})
    IN  IF Len(df) = 0 THEN df
        ELSE [j \in DOMAIN groups |->
                AggregateGroup(
                    SelectSeq(df, LAMBDA row : GroupKey(row, ekeys, decimals) = groups[j]),
                    ekeys, weighted)]

aggregate_split_transactions(df, keys, decimals) ==
    LET ekeys == existing_keys(keys)
        weighted == use_rounded_price(keys)
        groups == SortKeys(ekeys, {GroupKey(df[i], ekeys, decimals) : i \in DOMAIN df})
    IN  IF Len(df) = 0 THEN df
        ELSE IF Len(ekeys) = 0 THEN df
        ELSE [j \in DOMAIN groups |->
                AggregateGroup(
                    SelectSeq(df, LAMBDA row : GroupKey(row, ekeys, decimals) = groups[j]),
                    ekeys, weighted)]

InitAgg ==
    /\ MergeIdle
    /\ CleanupIdle
    /\ OthersIdle
    /\ agg_pc = "ready"
    /\ group_keys \in GroupKeyConfigs
    /\ agg_df \in AggBatches
    /\ df_aggregated = <<>>
    /\ df_reaggregated = <<>>

AggregateSplitTransactions ==
    /\ agg_pc = "ready"
    /\ df_aggregated' =
           aggregate_split_transactions(agg_df, group_keys, price_round_decimals)
    /\ agg_pc' = "done"
    /\ UNCHANGED <<mergeVars, cleanupVars, resVars, fzVars, svVars, group_keys,
                   agg_df, df_reaggregated>>

NextAgg == AggregateSplitTransactions

SpecAgg == InitAgg /\ [][NextAgg]_vars

----------------------------------------------------------------------------
(* aggregate_split_transactions on its own output, in floating point *)

\* The section above computes prices exactly. price_usd is a float64 column:
\* every product, sum and quotient is rounded to the nearest float, a tie to
\* the even significand. This section computes that way, with a significand
\* of SignificandBits bits in place of the 53 of float64.
SignificandBits == 7
MaxReaggBatch == 3

RECURSIVE Pow2(_)
Pow2(k) == IF k = 0 THEN 1 ELSE 2 * Pow2(k - 1)

\* the integer nearest to x, a tie to the even one
rint(x) ==
    LET q == x.n \div x.d
        r == x.n % x.d
    IN  IF 2 * r > x.d \/ (2 * r = x.d /\ q % 2 = 1) THEN q + 1 ELSE q

\* e with 2^(SignificandBits-1) <= (n/d) / 2^e < 2^SignificandBits, n, d > 0
RECURSIVE Exponent(_, _)
Exponent(n, d) ==
    IF n >= d * Pow2(SignificandBits) THEN Exponent(n, 2 * d) + 1
    ELSE IF n < d * Pow2(SignificandBits - 1) THEN Exponent(2 * n, d) - 1
    ELSE 0

\* the float nearest to the exact value x
RoundToFloat(x) ==
    IF x.kind # "num" \/ x.n = 0 THEN x
    ELSE LET a == Abs(x.n)
             s == IF x.n < 0 THEN -1 ELSE 1
             e == Exponent(a, x.d)
             m == rint(IF e >= 0 THEN Num(a, x.d * Pow2(e))
                                 ELSE Num(a * Pow2(-e), x.d))
         IN  IF e >= 0 THEN Num(s * m * Pow2(e), 1) ELSE Num(s * m, Pow2(-e))

\* the float operations x * q, x + y, x - y and x / q
FloatTimes(x, q) == RoundToFloat(Times(x, q))
FloatPlus(x, y) == RoundToFloat(Plus(x, y))
FloatMinus(x, y) == RoundToFloat(Plus(x, Times(y, -1)))
FloatDividedBy(x, q) == RoundToFloat(DividedBy(x, q))

\* Series.round(decimals) as numpy computes it: multiply by 10^decimals,
\* rint, divide by 10^decimals
round_float(x, decimals) ==
    FloatDividedBy(Num(rint(FloatTimes(x, Pow10(decimals))), 1), Pow10(decimals))

\* the float nearest to the decimal price cents / 100
FloatPrice(cents) == RoundToFloat(Num(cents, 100))

ReaggPrices == {FloatPrice(100), FloatPrice(105), FloatPrice(110)}
ReaggQuantities == {1, 4, 5}
ReaggRows == [trade_date : AggDates, ticker : Tickers, price_usd : ReaggPrices,
              quantity : ReaggQuantities]
ReaggBatches == SeqsUpTo(ReaggRows, MaxReaggBatch)

FloatGroupKey(row, ekeys, decimals) ==
    [i \in DOMAIN ekeys |->
        IF ekeys[i] = "_price_usd_rounded"
            THEN round_float(row.price_usd, decimals)
            ELSE row[ekeys[i]]]

\* the sum groupby takes of the column _weighted_price = price_usd * quantity
\* of the group g: a compensated (Kahan) sum, s the sum and c the
\* compensation so far
RECURSIVE group_sum(_, _, _)
group_sum(g, s, c) ==
    IF g = <<>> THEN s
    ELSE LET y == FloatMinus(FloatTimes(Head(g).price_usd, Head(g).quantity), c)
             t == FloatPlus(s, y)
         IN  group_sum(Tail(g), t, FloatMinus(FloatMinus(t, s), y))

\* one output row of groupby(...).agg(agg_dict) for the group g, then the
\* price restored from the weighted sum
FloatAggregateGroup(g, ekeys, weighted) ==
    [c \in AggColumns |->
        IF \E i \in DOMAIN ekeys : ekeys[i] = c THEN Head(g)[c]
        ELSE IF c = "price_usd" /\ weighted /\ "quantity" \in AggColumns
            THEN FloatDividedBy(group_sum(g, Num(0, 1), Num(0, 1)), SumQuantity(g))
        ELSE IF c \in sum_columns THEN SumQuantity(g)
        ELSE Head(g)[c]]

aggregate_split_transactions_float(df, keys, decimals) ==
    LET ekeys == existing_keys(keys)
        weighted == use_rounded_price(keys)
        groups == SortKeys(ekeys, {FloatGroupKey(df[i], ekeys, decimals) : i \in DOMAIN df})
    IN  IF Len(df) = 0 THEN df
        ELSE IF Len(ekeys) = 0 THEN df
        ELSE [j \in DOMAIN groups |->
                FloatAggregateGroup(
                    SelectSeq(df, LAMBDA row : FloatGroupKey(row, ekeys, decimals) = groups[j]),
                    ekeys, weighted)]

InitReagg ==
    /\ MergeIdle
    /\ CleanupIdle
    /\ OthersIdle
    /\ agg_pc = "ready"
    /\ group_keys \in GroupKeyConfigs
    /\ agg_df \in ReaggBatches
    /\ df_aggregated = <<>>
    /\ df_reaggregated = <<>>

\* the first call, on the batch
AggregateFirst ==
    /\ agg_pc = "ready"
    /\ df_aggregated' =
           aggregate_split_transactions_float(agg_df, group_keys, price_round_decimals)
    /\ agg_pc' = "done"
    /\ UNCHANGED <<mergeVars, cleanupVars, resVars, fzVars, svVars, group_keys,
                   agg_df, df_reaggregated>>

\* the second call, on what the first one returned
AggregateAgain ==
    /\ agg_pc = "done"
    /\ df_reaggregated' =
           aggregate_split_transactions_float(df_aggregated, group_keys,
                                              price_round_decimals)
    /\ agg_pc' = "again"
    /\ UNCHANGED <<mergeVars, cleanupVars, resVars, fzVars, svVars, group_keys,
                   agg_df, df_aggregated>>

NextReagg == AggregateFirst \/ AggregateAgain

SpecReagg == InitReagg /\ [][NextReagg]_vars

----------------------------------------------------------------------------
(* Identifier resolution: stock_name_overrides.py, complete_stock_name_from_ticker *)

\* a null cell (NaN, None)
NA == "<NA>"

\* str(x).strip().upper() on the strings of the model
Upper(x) == IF x = "ha" THEN "HA" ELSE x

\* a rename table with a chain TPX -> SGI -> HA
OLD_TO_NEW_TICKER_MAPPING_Chained ==
    [t \in {"TPX", "SGI"} |-> IF t = "TPX" THEN "SGI" ELSE "HA"]

OLD_TO_NEW_TICKER_MAPPING == [t \in {"TPX"} |-> "SGI"]

TICKER_TO_STOCK_INFO_MAPPING ==
    [t \in {"SGI", "TPX", "HA"} |->
        IF t = "HA"
        THEN [stock_name |-> "Hawaiian Holdings, Inc.", market |-> "NASDAQ"]
        ELSE [stock_name |-> "Somnigroup", market |-> "NYSE"]]

\* the patterns of STOCK_NAME_TO_TICKER_MAPPING a name of the model can
\* hold; every pattern maps to ticker SGI
STOCK_NAME_TO_TICKER_MAPPING ==
    [p \in {"TEMPUR", "SOMNIGROUP"} |->
        [ticker |-> "SGI", stock_name |-> "Somnigroup", market |-> "NYSE"]]

\* pattern.upper() in stock_name_upper
Contains(stock_name, pattern) ==
    \/ stock_name = "Tempur Sealy" /\ pattern = "TEMPUR"
    \/ stock_name = "Somnigroup" /\ pattern = "SOMNIGROUP"

\* not x or pd.isna(x) or str(x).strip() == ''
IsBlank(x) == x \in {NA, ""}

\* pd.isna(x) or str(x).strip() == '' or str(x).strip() == 'None'
IsEmpty(x) == x \in {NA, "", "None"}

normalize_ticker(ticker) ==
    IF IsBlank(ticker) THEN ""
    ELSE IF Upper(ticker) \in DOMAIN OLD_TO_NEW_TICKER_MAPPING
         THEN OLD_TO_NEW_TICKER_MAPPING[Upper(ticker)]
         ELSE Upper(ticker)

\* None is NA
get_ticker_override(stock_name) ==
    IF IsBlank(stock_name) THEN NA
    ELSE IF \E p \in DOMAIN STOCK_NAME_TO_TICKER_MAPPING : Contains(stock_name, p)
         THEN STOCK_NAME_TO_TICKER_MAPPING[
                  CHOOSE p \in DOMAIN STOCK_NAME_TO_TICKER_MAPPING :
                      Contains(stock_name, p)].ticker
         ELSE NA

get_market_override(ticker) ==
    IF IsBlank(ticker) THEN NA
    ELSE IF normalize_ticker(Upper(ticker)) \in DOMAIN TICKER_TO_STOCK_INFO_MAPPING
         THEN TICKER_TO_STOCK_INFO_MAPPING[normalize_ticker(Upper(ticker))].market
         ELSE NA

\* TICKER_TO_STOCK_NAME_WITH_DATE_RANGE is empty
get_stock_name_override(ticker) ==
    IF IsBlank(ticker) THEN NA
    ELSE IF normalize_ticker(Upper(ticker)) \in DOMAIN TICKER_TO_STOCK_INFO_MAPPING
         THEN TICKER_TO_STOCK_INFO_MAPPING[normalize_ticker(Upper(ticker))].stock_name
         ELSE NA

\* None for a blank argument
NoneIfBlank(x) == IF IsBlank(x) THEN NA ELSE x

\* 1. the ticker is there: normalise it, take the name of the table, and the
\* market of the table if no market was given
override_from_ticker(ticker, stock_name, market) ==
    IF ticker = NA
    THEN [ticker |-> NA, stock_name |-> stock_name, market |-> market]
    ELSE [ticker |-> normalize_ticker(ticker),
          stock_name |->
              IF get_stock_name_override(normalize_ticker(ticker)) # NA
              THEN get_stock_name_override(normalize_ticker(ticker))
              ELSE stock_name,
          market |->
              IF market = NA THEN get_market_override(normalize_ticker(ticker))
              ELSE market]

\* 2. the ticker inferred from the stock_name, with its name and market
override_from_inferred_ticker(result, inferred_ticker) ==
    IF inferred_ticker = NA THEN result
    ELSE [ticker |-> inferred_ticker,
          stock_name |->
              IF get_stock_name_override(inferred_ticker) # NA
              THEN get_stock_name_override(inferred_ticker)
              ELSE result.stock_name,
          market |->
              IF result.market = NA THEN get_market_override(inferred_ticker)
              ELSE result.market]

\* 2. no ticker, but a stock_name
override_from_stock_name(result) ==
    IF result.ticker = NA /\ result.stock_name # NA
    THEN override_from_inferred_ticker(result, get_ticker_override(result.stock_name))
    ELSE result

\* normalize_stock_name = True
get_full_stock_info_override(ticker, stock_name, market) ==
    override_from_stock_name(
        override_from_ticker(NoneIfBlank(ticker), NoneIfBlank(stock_name),
                             NoneIfBlank(market)))

needs_processing(row) ==
    LET ticker_empty == IsEmpty(row.ticker)
        stock_name_empty == IsEmpty(row.stock_name)
        market_empty == IsEmpty(row.market)
        is_old_ticker ==
            ~ticker_empty /\ Upper(row.ticker) \in DOMAIN OLD_TO_NEW_TICKER_MAPPING
        is_mapping_target_stock_name ==
            /\ ~stock_name_empty
            /\ \E p \in DOMAIN STOCK_NAME_TO_TICKER_MAPPING : Contains(row.stock_name, p)
        is_ticker_with_market_mapping ==
            /\ ~ticker_empty /\ market_empty
            /\ normalize_ticker(Upper(row.ticker)) \in DOMAIN TICKER_TO_STOCK_INFO_MAPPING
    IN  \/ ticker_empty
        \/ stock_name_empty
        \/ is_old_ticker
        \/ is_mapping_target_stock_name
        \/ is_ticker_with_market_mapping

\* the cells of the row the loop over df[mask].index writes, new being
\* (new_ticker, new_stock_name, new_market)
write_overrides(row, new) ==
    [ticker |->
        IF new.ticker # NA /\ (IsBlank(row.ticker) \/ Upper(row.ticker) # new.ticker)
        THEN new.ticker ELSE row.ticker,
     stock_name |->
        IF new.stock_name # NA
           /\ (IsEmpty(row.stock_name) \/ row.stock_name # new.stock_name)
        THEN new.stock_name ELSE row.stock_name,
     market |->
        IF new.market # NA /\ IsEmpty(row.market)
        THEN new.market ELSE row.market]

\* the body of the loop over df[mask].index
OverrideRow(row) ==
    write_overrides(row,
        get_full_stock_info_override(row.ticker, row.stock_name, row.market))

apply_stock_name_overrides(df) ==
    [i \in DOMAIN df |-> IF needs_processing(df[i]) THEN OverrideRow(df[i]) ELSE df[i]]

\* groupby(ticker)[stock_name].first() of the rows with a name, mapped over
\* the rows without one
fill_from_same_ticker(df) ==
    LET mask(i) == IsEmpty(df[i].stock_name) /\ df[i].ticker # NA
        valid(i) == ~IsEmpty(df[i].stock_name) /\ df[i].ticker # NA
        ticker_to_name(t) ==
            IF \E j \in DOMAIN df : valid(j) /\ df[j].ticker = t
            THEN df[CHOOSE j \in DOMAIN df :
                        /\ valid(j) /\ df[j].ticker = t
                        /\ \A k \in 1..(j - 1) : ~(valid(k) /\ df[k].ticker = t)].stock_name
            ELSE NA
    IN  [i \in DOMAIN df |->
            IF mask(i) THEN [df[i] EXCEPT !.stock_name = ticker_to_name(df[i].ticker)]
            ELSE df[i]]

\* apply_overrides = True, use_transaction_inference = False
complete_stock_name_from_ticker(df) ==
    fill_from_same_ticker(apply_stock_name_overrides(df))

ResFunctions == {"apply_stock_name_overrides", "complete_stock_name_from_ticker"}

Resolve(fn, df) ==
    IF fn = "apply_stock_name_overrides" THEN apply_stock_name_overrides(df)
    ELSE complete_stock_name_from_ticker(df)

ResTickers == {NA, "", "TPX", "ha", "AAPL"}
ResNames == {"", "None", "Tempur Sealy", "Apple Inc."}
ResMarkets == {"", "NASDAQ"}
ResRows == [ticker : ResTickers, stock_name : ResNames, market : ResMarkets]
ResBatches == SeqsUpTo(ResRows, MaxResBatch)

InitResolve ==
    /\ MergeIdle
    /\ CleanupIdle
    /\ AggIdle
    /\ FzIdle
    /\ SvIdle
    /\ res_fn \in ResFunctions
    /\ res_in \in ResBatches
    /\ res_prev = res_in
    /\ res_df = res_in
    /\ res_passes = 0

ResolveIdentifiers ==
    /\ res_fn \in ResFunctions
    /\ res_passes < MaxPasses
    /\ res_prev' = res_df
    /\ res_df' = Resolve(res_fn, res_df)
    /\ res_passes' = res_passes + 1
    /\ UNCHANGED <<mergeVars, cleanupVars, aggVars, fzVars, svVars, res_fn, res_in>>

NextResolve == ResolveIdentifiers

SpecResolve == InitResolve /\ [][NextResolve]_vars

----------------------------------------------------------------------------
(* complete_stock_name_from_transaction_inference *)

tolerance_days == 7
\* price_tolerance = 0.01 and the 0.1 of the quantity test, in per cent
PriceTolerancePct == 1
QuantityTolerancePct == 10

\* prices are counted in cents, dates in days
TargetDate == 10
FzTargets ==
    [settlement_date : {TargetDate}, num_of_shares : {100},
     price : {0, 5000, 5010}, ticker : {""}, stock_name : {""}]

LedgerRows ==
    [settlement_date : {TargetDate - tolerance_days, TargetDate - 1,
                        TargetDate + tolerance_days + 1},
     quantity : {100, 110, 111},
     price_usd : {5000, 5100},
     ids : {<<"", "">>, <<"SOFI", "">>, <<"SOFI", "SoFi Technologies">>,
            <<"TPX", "Tempur Sealy">>}]
\* the ledgers of at most n rows
Ledgers(n) == SeqsUpTo(LedgerRows, n)

\* 1. the rows within tolerance_days of the settlement date, one side only
DateCandidates_OneSided(ledger, settlement_date, days) ==
    {j \in DOMAIN ledger : ledger[j].settlement_date >= settlement_date - days}

\* 1. the rows within tolerance_days of the settlement date
DateCandidates(ledger, settlement_date, days) ==
    {j \in DOMAIN ledger :
        /\ ledger[j].settlement_date >= settlement_date - days
        /\ ledger[j].settlement_date <= settlement_date + days}

Max(a, b) == IF a >= b THEN a ELSE b

\* 2. quantity equal, or abs(quantity - n) / max(abs(n), 1) <= 0.1
QuantityCandidates(ledger, cands, n) ==
    {j \in cands :
        \/ ledger[j].quantity = n
        \/ Abs(ledger[j].quantity - n) * 100 <= QuantityTolerancePct * Max(Abs(n), 1)}

\* 3. only for a price > 0: abs(price_usd - price) / price <= price_tolerance
PriceCandidates(ledger, cands, price) ==
    IF price > 0
    THEN {j \in cands :
             Abs(ledger[j].price_usd - price) * 100 <= PriceTolerancePct * price}
    ELSE cands

\* the first candidate in the ledger
BestMatch_First(ledger, cands, settlement_date) ==
    CHOOSE j \in cands : \A k \in cands : j <= k

\* date_diff.idxmin(): the first of the candidates nearest in date
BestMatch(ledger, cands, settlement_date) ==
    CHOOSE j \in cands :
        \A k \in cands :
            \/ Abs(ledger[j].settlement_date - settlement_date)
                  < Abs(ledger[k].settlement_date - settlement_date)
            \/ /\ Abs(ledger[j].settlement_date - settlement_date)
                     = Abs(ledger[k].settlement_date - settlement_date)
               /\ j <= k

\* lines 275-305: the identifiers of the best match, normalised, written
\* into the row
AssignFrom(row, best_match) ==
    LET stock_name_val == best_match.ids[2]
        ticker_val == best_match.ids[1]
        override == get_full_stock_info_override(
                        IF ticker_val \notin {"", "nan", "None"} THEN ticker_val ELSE NA,
                        stock_name_val, NA)
        new_ticker == IF override.ticker # NA THEN override.ticker ELSE ticker_val
        new_name == IF override.stock_name # NA THEN override.stock_name
                    ELSE stock_name_val
    IN  IF stock_name_val \notin {"", "nan", "None"}
        THEN [row EXCEPT !.ticker = IF new_ticker \notin {"", "nan", "None"}
                                    THEN new_ticker ELSE @,
                         !.stock_name = new_name]
        ELSE row

\* the body of the loop for one row with blank ticker and stock_name
complete_stock_name_from_transaction_inference(row, ledger) ==
    LET c1 == DateCandidates(ledger, row.settlement_date, tolerance_days)
        c2 == QuantityCandidates(ledger, c1, row.num_of_shares)
        c3 == PriceCandidates(ledger, c2, row.price)
    IN  IF c3 = {} THEN [row |-> row, best_match_idx |-> 0]
        ELSE LET best == BestMatch(ledger, c3, row.settlement_date)
             IN  [row |-> AssignFrom(row, ledger[best]), best_match_idx |-> best]

InitFuzzy ==
    /\ MergeIdle
    /\ CleanupIdle
    /\ AggIdle
    /\ ResIdle
    /\ SvIdle
    /\ fz_pc = "ready"
    /\ fz_target \in FzTargets
    /\ df_transaction \in Ledgers(MaxLedger)
    /\ fz_out = fz_target
    /\ best_match_idx = 0

CompleteFromTransactionInference ==
    /\ fz_pc = "ready"
    /\ LET r == complete_stock_name_from_transaction_inference(fz_target, df_transaction)
       IN  /\ fz_out' = r.row
           /\ best_match_idx' = r.best_match_idx
    /\ fz_pc' = "done"
    /\ UNCHANGED <<mergeVars, cleanupVars, aggVars, resVars, svVars, fz_target,
                   df_transaction>>

NextFuzzy == CompleteFromTransactionInference

SpecFuzzy == InitFuzzy /\ [][NextFuzzy]_vars

----------------------------------------------------------------------------
(* save_master_data followed by cleanup_backup_files *)

\* The mtime of a file is the instant of the write that made its content,
\* counted in writes of the master: st_mtime is finer than the second the
\* backup name is cut to, and copy2 hands the master's mtime to the backup.

\* master_<data_type>_<broker>_backup_<%Y%m%d_%H%M%S>.parquet, a copy of
\* the master
BackupOfMaster == [day |-> sv_now.day, time |-> sv_now.time, mtime |-> sv_master]

\* shutil.copy2 replaces a file of the same name
DirAfterCopy ==
    IF sv_master = 0 THEN backup_dir
    ELSE {f \in backup_dir : ~SameName(f, BackupOfMaster)} \cup {BackupOfMaster}

InitRetain ==
    /\ MergeIdle
    /\ AggIdle
    /\ ResIdle
    /\ FzIdle
    /\ SvIdle
    /\ backup_dir = {}
    /\ cl_pc = "ready"
    /\ cl_call = [before |-> {}, locked |-> {}, keep_daily_only |-> TRUE,
                  keep_latest_n |-> 0]
    /\ deleted_count = 0

\* time passes: the next second, or the first second of the next day
SaveClockTick ==
    /\ \/ /\ sv_now.time < MaxTime
          /\ sv_now' = [sv_now EXCEPT !.time = @ + 1]
       \/ /\ sv_now.day < MaxDay
          /\ sv_now' = [day |-> sv_now.day + 1, time |-> 1]
    /\ UNCHANGED <<mergeVars, cleanupVars, aggVars, resVars, fzVars, sv_master,
                   sv_writes, sv_latest>>

\* save_master_data returning True: backup of the existing master, write
SaveMasterData ==
    /\ sv_writes < MaxWrites
    /\ backup_dir' = DirAfterCopy
    /\ sv_latest' = IF sv_master = 0 THEN sv_latest ELSE BackupOfMaster
    /\ sv_master' = sv_writes + 1
    /\ sv_writes' = sv_writes + 1
    /\ cl_pc' = "ready"
    /\ UNCHANGED <<mergeVars, aggVars, resVars, fzVars, cl_call, deleted_count, sv_now>>

\* save_master_data returning False after the backup: to_parquet raises
\* before it has touched the master file
SaveMasterDataFails ==
    /\ sv_master # 0
    /\ faults < MaxFaults
    /\ faults' = faults + 1
    /\ backup_dir' = DirAfterCopy
    /\ cl_pc' = "ready"
    /\ UNCHANGED <<key_columns, masterFile, backups, now, pc, df_master, df_new,
                   df_merged, changed, backup_file, save_result, ever_saved, runs,
                   aggVars, resVars, fzVars, svVars, cl_call, deleted_count>>

NextRetain ==
    \/ SaveClockTick
    \/ SaveMasterData
    \/ SaveMasterDataFails
    \/ CleanupBackupFiles

SpecRetain == InitRetain /\ [][NextRetain]_vars

----------------------------------------------------------------------------
(* Properties *)

\* the Dedup Key of a row: its key columns after numeric rounding
DedupKey(row) == KeyOf([row EXCEPT !.unit_price = RoundPrice(@)])

DedupKeys(df) == {DedupKey(df[i]) : i \in 1..Len(df)}

\* the Dedup Key is defined when the frames carry every key column
KeysPresent == key_columns \subseteq Columns

\* the configuration of the Dedup Key the data model describes: the date
\* column the window uses is one of the key columns
DateInKey == KeysPresent /\ date_columns[1] \in key_columns

Merged == pc = "merged"

\* C1: merging the batch again into the frame merge_with_master returned
\* gives that same frame: merge(merge(M, B), B) = merge(M, B).
C1_MergeIdempotent ==
    (Merged /\ DateInKey) =>
        merge_with_master(df_new, SomeFrame(df_merged)).frame = df_merged

UniqueKeys(df) ==
    \A i, j \in 1..Len(df) : i # j => DedupKey(df[i]) # DedupKey(df[j])

\* C2: no two rows of the persisted master share a Dedup Key.
C2_MasterKeysUnique ==
    (masterFile.kind = "parquet" /\ KeysPresent) => UniqueKeys(masterFile.rows)

\* C3: every Dedup Key of the merged batch is present in the merged frame;
\* no batch row whose key is absent from the master is dropped.
C3_NoSilentLoss ==
    (Merged /\ DateInKey) => DedupKeys(df_new) \subseteq DedupKeys(df_merged)

\* C4: no row returned by deduplicate carries a Dedup Key of the master, and
\* a batch whose every key is in the master leaves the row count unchanged.
C4_DedupCorrect ==
    (Merged /\ DateInKey /\ df_master.present) =>
        /\ DedupKeys(deduplicate(df_new, df_master))
               \cap DedupKeys(df_master.rows) = {}
        /\ DedupKeys(df_new) \subseteq DedupKeys(df_master.rows)
               => Len(df_merged) = Len(df_master.rows)

\* C5: the master path is written only by the write step of
\* save_master_data, and when a file exists there the backup named by this
\* save already holds a complete copy of it; a failed copy leaves the
\* master path unwritten.
C5_BackupBeforeOverwrite ==
    [][masterFile' # masterFile =>
          /\ pc = "write"
          /\ masterFile.kind # "absent" =>
                 (backup_file # 0 /\ backups[backup_file] = masterFile)]_vars

\* an existing master has been overwritten after its backup was taken
C5_Witness ==
    /\ save_result = "returned_true"
    /\ backup_file # 0
    /\ backups[backup_file].kind = "parquet"
    /\ masterFile.kind = "parquet"
    /\ masterFile.rows # backups[backup_file].rows

\* C6 (as stated): changed = False with the original master exactly when the
\* deduplicated batch is empty and a master existed; in every other case,
\* every cold-start merge included, changed = True and the frame is
\* concat(master, deduplicated batch).
C6_ChangedFlag_Original ==
    Merged =>
        LET u == deduplicate(df_new, df_master)
        IN  IF Len(u) = 0 /\ df_master.present
            THEN ~changed /\ df_merged = df_master.rows
            ELSE changed /\ df_merged = df_master.rows \o u

\* C6 (amended): changed = True exactly when the deduplicated batch is not
\* empty, with or without a master; the frame is concat(master,
\* deduplicated batch), the master counting as empty on a cold start.
C6_ChangedFlag ==
    Merged =>
        LET u == deduplicate(df_new, df_master)
        IN  /\ changed = (Len(u) > 0)
            /\ df_merged = df_master.rows \o u

\* a cold-start merge of an empty batch
C6_Witness == Merged /\ ~df_master.present /\ Len(df_new) = 0 /\ ~changed

\* the rows of the rounded batch whose key no row of the whole master has
FullAntiJoin(new_in, master_in) ==
    AntiJoin(apply_numeric_rounding(new_in),
             apply_numeric_rounding(master_in.rows))

\* C7: for a master above the size threshold (here one whose rows have
\* pairwise distinct Dedup Keys), deduplicate returns the rows the anti-join
\* against the whole master returns.
C7_WindowedEqualsFull ==
    (Merged /\ KeysPresent /\ df_master.present
        /\ UniqueKeys(df_master.rows)
        /\ Len(df_master.rows) > LargeMasterRows) =>
        deduplicate(df_new, df_master) = FullAntiJoin(df_new, df_master)

C9_PriorMasterSurvives ==
    [][faults' > faults => masterFile' = masterFile]_vars

\* C10: once a save has succeeded, every later run loads a master (Warm).
C10_NeverColdAgain ==
    (pc = "loaded" /\ ever_saved) => df_master.present

\* C11: a merge against an existing master returns a frame whose first |M|
\* rows are the rows of M, in order and unchanged.
C11_AppendOnly ==
    (Merged /\ df_master.present) =>
        /\ Len(df_merged) >= Len(df_master.rows)
        /\ SubSeq(df_merged, 1, Len(df_master.rows)) = df_master.rows

\* rows were appended to a master of two rows
C11_Witness ==
    /\ Merged /\ df_master.present /\ changed
    /\ Len(df_master.rows) >= 2
    /\ Len(df_merged) > Len(df_master.rows)

\* C12: with no master, a batch of n >= 1 rows with pairwise distinct Dedup
\* Keys gives a frame of exactly n rows and changed = True.
C12_ColdStartInsert ==
    (Merged /\ KeysPresent /\ ~df_master.present
        /\ Len(df_new) >= 1 /\ UniqueKeys(df_new)) =>
        (Len(df_merged) = Len(df_new) /\ changed)

\* a cold-start merge of two rows with distinct Dedup Keys
C12_Witness ==
    /\ Merged /\ KeysPresent /\ ~df_master.present
    /\ Len(df_new) >= 2 /\ UniqueKeys(df_new)
    /\ Len(df_merged) = Len(df_new)

\* C20: when a configured key column is absent from the frames, deduplicate
\* filters nothing: it returns every row of the batch, in order (with the
\* numeric rounding it applies to every batch).
C20_MissingKeyPassThrough ==
    (Merged /\ ~KeysPresent /\ df_master.present) =>
        deduplicate(df_new, df_master) = apply_numeric_rounding(df_new)

\* a batch row whose present key columns all match a master row is returned
C20_Witness ==
    /\ Merged /\ ~KeysPresent /\ df_master.present
    /\ Len(df_new) >= 1
    /\ \E j \in 1..Len(df_master.rows) :
           df_master.rows[j] = apply_numeric_rounding(df_new)[1]
    /\ Len(df_merged) = Len(df_master.rows) + Len(df_new)

CleanupDone == cl_pc = "done"

OfDay(files, d) == {f \in files : f.day = d}

Newest(files) == {f \in files : \A g \in files : f.mtime >= g.mtime}

Min(a, b) == IF a <= b THEN a ELSE b

\* C13: keep_daily_only and no deletion failure: of every day that had a
\* backup exactly one backup survives, one of greatest mtime of that day.
C13_DailyLatestOnly ==
    (CleanupDone /\ cl_call.keep_daily_only /\ cl_call.locked = {}) =>
        \A d \in {f.day : f \in cl_call.before} :
            /\ Cardinality(OfDay(backup_dir, d)) = 1
            /\ OfDay(backup_dir, d) \subseteq Newest(OfDay(cl_call.before, d))

\* two backups of one day with different mtimes, one of them deleted
C13_Witness ==
    /\ CleanupDone /\ cl_call.keep_daily_only /\ cl_call.locked = {}
    /\ deleted_count >= 1
    /\ \E f, g \in cl_call.before : f.day = g.day /\ f.mtime < g.mtime
    /\ \E f, g \in cl_call.before : f.day # g.day

\* C14: keep_latest_n = N and no deletion failure: min(N, total) backups
\* survive and none of them is older than a deleted one.
C14_KeepLatestN ==
    (CleanupDone /\ ~cl_call.keep_daily_only /\ cl_call.locked = {}) =>
        /\ backup_dir \subseteq cl_call.before
        /\ Cardinality(backup_dir)
               = Min(cl_call.keep_latest_n, Cardinality(cl_call.before))
        /\ \A f \in backup_dir, g \in cl_call.before \ backup_dir :
               f.mtime >= g.mtime

\* more than N backups, the oldest deleted
C14_Witness ==
    /\ CleanupDone /\ ~cl_call.keep_daily_only /\ cl_call.locked = {}
    /\ cl_call.keep_latest_n >= 1
    /\ Cardinality(cl_call.before) > cl_call.keep_latest_n
    /\ deleted_count >= 1
    /\ \E f \in backup_dir, g \in cl_call.before \ backup_dir : f.mtime > g.mtime

\* C15: the call returns; a file whose deletion failed still exists, every
\* other file the retention rule deletes is gone, and the count returned is
\* the number of files that are gone.
C15_PruneFailureSkipped ==
    CleanupDone =>
        /\ cl_call.locked \subseteq backup_dir
        /\ deleted_count = Cardinality(cl_call.before \ backup_dir)
        /\ backup_dir \subseteq cl_call.before
        /\ IF cl_call.keep_daily_only
           THEN \A d \in {f.day : f \in cl_call.before} :
                    \E k \in Newest(OfDay(cl_call.before, d)) :
                        OfDay(backup_dir, d) = {k} \cup OfDay(cl_call.locked, d)
           ELSE \E K \in SUBSET cl_call.before :
                    /\ Cardinality(K)
                          = Min(cl_call.keep_latest_n, Cardinality(cl_call.before))
                    /\ \A f \in K, g \in cl_call.before \ K : f.mtime >= g.mtime
                    /\ backup_dir = K \cup cl_call.locked

\* one deletion failed and another one succeeded
C15_Witness ==
    /\ CleanupDone
    /\ deleted_count >= 1
    /\ \E f \in cl_call.locked :
           \E g \in backup_dir \ cl_call.locked :
               IF cl_call.keep_daily_only
               THEN f.day = g.day
               ELSE Cardinality(backup_dir) > cl_call.keep_latest_n

AggDone == agg_pc = "done"

\* two fragments of one order: (qty=10, price=p1) and (qty=5, price=p2)
Fragments(d, p1, p2) ==
    << [trade_date |-> d, ticker |-> "SOFI", price_usd |-> p1, quantity |-> 10],
       [trade_date |-> d, ticker |-> "SOFI", price_usd |-> p2, quantity |-> 5] >>

\* p1 and p2 lie within half a tenth of one multiple k/10 of a tenth (no
\* price of AggPrices lies halfway between two)
SameAtOneDecimal(p1, p2) ==
    \E k \in 1000..1030 :
        /\ 2 * Abs(10 * p1.n - k * p1.d) < p1.d
        /\ 2 * Abs(10 * p2.n - k * p2.d) < p2.d

\* C16 as stated: with the default keys the fragments (10, 100.0) and
\* (5, 103.0) become one record with quantity 15 and price 101.0.
C16_FragmentCollapse_Original ==
    (AggDone /\ group_keys = DefaultGroupKeys) =>
        \A d \in AggDates :
            agg_df = Fragments(d, Num(100, 1), Num(103, 1)) =>
                /\ Len(df_aggregated) = 1
                /\ df_aggregated[1].quantity = 15
                /\ df_aggregated[1].price_usd = Num(101, 1)

\* C16: with the default keys two fragments (10, p1) and (5, p2) of one day
\* and ticker become one record exactly when p1 and p2 round to one value at
\* one decimal; the record then has quantity 15 and price
\* (10 p1 + 5 p2) / 15, (100.0, 100.03) giving 100.01; otherwise, as for
\* (100.0, 103.0), both fragments stay as they are.
C16_FragmentCollapse ==
    (AggDone /\ group_keys = DefaultGroupKeys) =>
        \A d \in AggDates, p1, p2 \in AggPrices :
            agg_df = Fragments(d, p1, p2) =>
                IF SameAtOneDecimal(p1, p2)
                THEN /\ Len(df_aggregated) = 1
                     /\ df_aggregated[1].quantity = 15
                     /\ df_aggregated[1].price_usd
                           = DividedBy(Plus(Times(p1, 10), Times(p2, 5)), 15)
                     /\ (p1 = Num(100, 1) /\ p2 = Num(10003, 100))
                           => df_aggregated[1].price_usd = Num(10001, 100)
                ELSE /\ Len(df_aggregated) = 2
                     /\ {df_aggregated[i] : i \in 1..2} = {agg_df[i] : i \in 1..2}

\* the fragments (10, 100.0) and (5, 100.03) collapsed into one record
C16_Witness ==
    /\ AggDone /\ group_keys = DefaultGroupKeys
    /\ agg_df = Fragments(1, Num(100, 1), Num(10003, 100))
    /\ Len(df_aggregated) = 1

\* the groups of the batch in output order, and the fragments of one group
GroupsOf(df, keys) ==
    SortKeys(existing_keys(keys),
             {GroupKey(df[i], existing_keys(keys), price_round_decimals) : i \in DOMAIN df})

FragmentsOf(df, keys, key) ==
    SelectSeq(df, LAMBDA row :
        GroupKey(row, existing_keys(keys), price_round_decimals) = key)

Grouped == AggDone /\ Len(agg_df) > 0 /\ Len(existing_keys(group_keys)) > 0

PositiveQuantities(df) == \A i \in DOMAIN df : df[i].quantity > 0

\* C17: for every group emitted from a batch of positive quantities,
\* whatever the grouping keys, the output quantity is the sum of the
\* fragments' quantities and the output price is
\* sum(price_i * qty_i) / sum(qty_i).
C17_WeightedAverage ==
    (Grouped /\ PositiveQuantities(agg_df)) =>
        /\ Len(df_aggregated) = Len(GroupsOf(agg_df, group_keys))
        /\ \A j \in DOMAIN df_aggregated :
              LET g == FragmentsOf(agg_df, group_keys, GroupsOf(agg_df, group_keys)[j])
              IN  /\ df_aggregated[j].quantity = SumQuantity(g)
                  /\ SumQuantity(g) # 0 =>
                        df_aggregated[j].price_usd
                            = DividedBy(SumWeighted(g), SumQuantity(g))

\* C18: price_usd being a grouping key, every group whose quantities sum to
\* zero is emitted with a null price.
C18_ZeroQuantityNull ==
    (Grouped /\ use_rounded_price(group_keys)) =>
        \A j \in DOMAIN df_aggregated :
            LET g == FragmentsOf(agg_df, group_keys, GroupsOf(agg_df, group_keys)[j])
            IN  SumQuantity(g) = 0 => IsNull(df_aggregated[j].price_usd)

\* C19: none of the grouping keys is a column of the batch: the batch is
\* returned as it is.
C19_NoKeyPassThrough ==
    (AggDone /\ Len(existing_keys(group_keys)) = 0) => df_aggregated = agg_df

\* a batch of two fragments of one day and price, returned as two rows
C19_Witness ==
    /\ AggDone
    /\ group_keys = <<"order_id">>
    /\ Len(agg_df) = 2
    /\ agg_df[1].trade_date = agg_df[2].trade_date
    /\ agg_df[1].price_usd = agg_df[2].price_usd
    /\ agg_df[1].quantity # 0 /\ agg_df[2].quantity # 0
    /\ Len(df_aggregated) = 2

\* the ticker of the row, in upper case as the table has it, has an entry
\* in the ticker-to-info table once renamed
InInfoTable(row) ==
    /\ ~IsBlank(row.ticker)
    /\ Upper(row.ticker) = row.ticker
    /\ normalize_ticker(row.ticker) \in DOMAIN TICKER_TO_STOCK_INFO_MAPPING

\* C21: after a pass every row whose renamed ticker is in the ticker-to-info
\* table carries the stock_name and the market of the table.
C21_OverrideReplaces ==
    (res_fn = "apply_stock_name_overrides" /\ res_passes = 1) =>
        \A i \in DOMAIN res_in :
            InInfoTable(res_in[i]) =>
                LET info == TICKER_TO_STOCK_INFO_MAPPING[normalize_ticker(res_in[i].ticker)]
                IN  /\ res_df[i].stock_name = info.stock_name
                    /\ res_df[i].market = info.market

\* C26: a second pass of identifier resolution changes nothing.
C26_OverrideIdempotent ==
    res_passes >= 2 => res_df = res_prev

\* two passes, the first of which renamed a ticker and filled a stock_name
\* from another row
C26_Witness ==
    /\ res_passes = 2
    /\ res_fn = "complete_stock_name_from_ticker"
    /\ Len(res_in) = 2
    /\ res_in[1].ticker = "TPX" /\ res_df[1].ticker = "SGI"
    /\ res_in[2].ticker = "AAPL" /\ res_in[2].stock_name = "Apple Inc."
    /\ res_df = res_prev

FzDone == fz_pc = "done"

\* identifiers were written into the row
Assigned == FzDone /\ fz_out # fz_target

DateDistance(ref, rec) == Abs(ref.settlement_date - rec.settlement_date)

\* the three tolerance predicates of a reference row against a record
DateWithin(ref, rec) == DateDistance(ref, rec) <= tolerance_days

QuantityWithin(ref, rec) ==
    \/ ref.quantity = rec.num_of_shares
    \/ 10 * Abs(ref.quantity - rec.num_of_shares) <= Abs(rec.num_of_shares)

PriceWithin(ref, rec) == 100 * Abs(ref.price_usd - rec.price) <= Abs(rec.price)

Survives(ref, rec) ==
    DateWithin(ref, rec) /\ QuantityWithin(ref, rec) /\ PriceWithin(ref, rec)

\* C22: the reference row identifiers are assigned from satisfies the date,
\* the quantity and the price predicate against the record.
C22_AllTolerances ==
    Assigned => Survives(df_transaction[best_match_idx], fz_target)

\* C23: a reference row further than tolerance_days from the record's
\* settlement date is never selected.
C23_DateWindow ==
    (FzDone /\ best_match_idx # 0) =>
        DateWithin(df_transaction[best_match_idx], fz_target)

\* a row outside the window with the record's price and quantity was left
\* aside, a row inside the window was selected
C23_Witness ==
    /\ FzDone /\ best_match_idx # 0
    /\ \E j \in DOMAIN df_transaction :
           /\ ~DateWithin(df_transaction[j], fz_target)
           /\ df_transaction[j].quantity = fz_target.num_of_shares
           /\ df_transaction[j].price_usd = fz_target.price
           /\ j < best_match_idx

\* C24: no reference row that survives the three predicates is nearer in
\* date than the row whose identifiers are used, and for a record with a
\* positive price that row is a survivor itself.
C24_NearestInDate ==
    Assigned =>
        /\ \A j \in DOMAIN df_transaction :
              Survives(df_transaction[j], fz_target) =>
                  DateDistance(df_transaction[j], fz_target)
                      >= DateDistance(df_transaction[best_match_idx], fz_target)
        /\ fz_target.price > 0 =>
              Survives(df_transaction[best_match_idx], fz_target)

\* two survivors, the second of the ledger nearer in date and used
C24_Witness ==
    /\ Assigned
    /\ fz_target.price > 0
    /\ Len(df_transaction) = 2
    /\ Survives(df_transaction[1], fz_target)
    /\ Survives(df_transaction[2], fz_target)
    /\ DateDistance(df_transaction[2], fz_target)
          < DateDistance(df_transaction[1], fz_target)
    /\ best_match_idx = 2

\* C25: a record with a positive price for which a reference row carrying
\* a ticker or a stock_name survives the three predicates ends with
\* identifiers assigned.
C25_ResolvesWhenSurvivor ==
    (FzDone /\ fz_target.price > 0) =>
        ((\E j \in DOMAIN df_transaction :
              /\ Survives(df_transaction[j], fz_target)
              /\ df_transaction[j].ids # <<"", "">>)
         => (fz_out.ticker # "" \/ fz_out.stock_name # ""))

\* the rows merge_with_master has put behind the master
AppendedRows ==
    IF df_master.present
    THEN SubSeq(df_merged, Len(df_master.rows) + 1, Len(df_merged))
    ELSE df_merged

\* C27: every row appended to the master has the field values of a row of
\* the batch handed to merge_with_master.
C27_AppendedKeepValues ==
    (Merged /\ changed) =>
        \A i \in DOMAIN AppendedRows :
            \E j \in DOMAIN df_new : AppendedRows[i] = df_new[j]

\* C28: the backup a save copies the master to is not an earlier snapshot.
C28_SnapshotsNeverOverwritten ==
    [][(pc = "copy" /\ pc' = "write") =>
          backups[backup_file].kind # "parquet"]_vars

\* a cleanup that keeps at least one backup has run on a directory holding
\* the backup of the latest overwrite
PrunedWithLatest ==
    /\ cl_pc = "done"
    /\ sv_latest \in cl_call.before
    /\ cl_call.keep_daily_only \/ cl_call.keep_latest_n >= 1

\* C29: after the cleanup the backup the latest overwrite has made, or a
\* backup with the same content (a copy of the same master, which has the
\* same mtime), is still there.
C29_NewestSurvives ==
    PrunedWithLatest => \E f \in backup_dir : f.mtime = sv_latest.mtime

\* C30: a second aggregation with the same grouping keys and price precision
\* returns the output of the first one unchanged, for batches whose quantities
\* are all positive (ReaggQuantities holds positive quantities only).
C30_AggregationIdempotent ==
    agg_pc = "again" => df_reaggregated = df_aggregated

====
